---- MODULE Spec2Model ----
(***************************************************************************)
(* A model of bea_egui's window session: the App struct (src/src/app.rs), *)
(* its key-binding table Cmd (src/src/cmd.rs), the Act enum               *)
(* (src/src/act.rs), the per-window Lens (src/src/lens.rs) and the winit  *)
(* ApplicationHandler callbacks that drive them.                           *)
(***************************************************************************)
EXTENDS Integers, FiniteSets, Sequences, TLC

\* ------------------------------------------------------------------ bounds

\* Window identities the OS can hand out: 1..MaxWindows.
MaxWindows == 2

\* The identities the OS gives to the windows it creates.
WindowIds == 1..MaxWindows

\* The identities a call or an event can name: those of WindowIds, and one
\* that no window of this run ever has.
CallIds == 1..(MaxWindows + 1)

\* No window identity (a failed creation, a call that names no window): the
\* integer below the first identity.
NoId == 1 - 1

\* --------------------------------------------------------------------- Act

\* enum Act, in declaration order, which is the order strum's Act::iter() yields.
ActIterReversed == <<"Be", "NewWindow", "Exit", "CloseWindow">>

ActIter == <<"CloseWindow", "Exit", "NewWindow", "Be">>

Acts == {ActIter[i] : i \in 1..Len(ActIter)}

\* No Act: Option<Act>::None.
NoAct == "None"

\* Act::snake: the variant's Display name converted to snake case.
Snake(a) ==
    CASE a = "CloseWindow" -> "close_window"
      [] a = "Exit" -> "exit"
      [] a = "NewWindow" -> "new_window"
      [] a = "Be" -> "be"

\* ----------------------------------------------------------------- HashMap

\* HashMap::new(): the map with no entries.
EmptyMap == [k \in {} |-> TRUE]

\* HashMap::insert: the entry for k is added, or replaced if k is present.
HashMapInsert(m, k, v) == [x \in (DOMAIN m) \cup {k} |-> IF x = k THEN v ELSE m[x]]

\* HashMap::remove: the entry for k is removed if present; no effect otherwise.
HashMapRemove(m, k) == [x \in (DOMAIN m) \ {k} |-> m[x]]

\* HashMap::clear: every entry is removed.
HashMapClear(m) == [x \in {} |-> m[x]]

\* HashMap::is_empty.
IsEmpty(m) == DOMAIN m = {}

\* ------------------------------------------------------------ configuration

\* config::Value as Cmd::from sees it: its kind and, for a scalar, the text
\* into_string gives for it.
Str(text) == [kind |-> "String", text |-> text]

\* The value of `exit = 5`.
IntegerValue == [kind |-> "Integer", text |-> "5"]

\* The value of `exit = true`.
BooleanValue == [kind |-> "Boolean", text |-> "true"]

\* The value of `exit = 1.5`.
FloatValue == [kind |-> "Float", text |-> "1.5"]

\* The value of `exit = ["Escape"]`.
ArrayValue == [kind |-> "Array", text |-> "Escape"]

\* The value of `[exit]` followed by `key = "Escape"`.
TableValue == [kind |-> "Table", text |-> "Escape"]

\* The kinds of value into_string turns into a string.
ScalarKinds == {"String", "Integer", "Float", "Boolean"}

\* Value::into_string: a string as it is, a number or a boolean as its text,
\* and an error (invalid type) for an array or a table.
IntoString(value) ==
    IF value.kind \in ScalarKinds
    THEN [ok |-> TRUE, text |-> value.text]
    ELSE [ok |-> FALSE, text |-> ""]

\* The configuration load_config falls back to when the file cannot be built:
\* set_default("exit", "Escape"), set_default("new_window", "n").
DefaultConfig == [exit |-> Str("Escape"), new_window |-> Str("n")]

\* Tables a readable configuration file can produce (action name -> value):
\* one that binds other keys than the default does, and one whose value is
\* not a string.
FileTables ==
    { [close_window |-> Str("n"), exit |-> Str("x"), be |-> Str("b")],
      [exit |-> ArrayValue] }

\* What Config::builder().add_source(File::with_name("config")).build() gives:
\* an error (file missing or unparsable), or the file's table.
ConfigSources ==
    {[ok |-> FALSE, table |-> EmptyMap]} \cup {[ok |-> TRUE, table |-> t] : t \in FileTables}

\* The keys a configuration file can hold: the snake names of the Acts, and
\* one key that names no Act.
ConfigKeys == {"close_window", "exit", "new_window", "be", "title"}

\* The values a configuration file can give a key.
ConfigValues ==
    {Str("Escape"), Str("n"), Str("x"), IntegerValue, BooleanValue, FloatValue, ArrayValue,
     TableValue}

\* Every table over ConfigKeys and ConfigValues, the empty one included.
AllFileTables == UNION {[D -> ConfigValues] : D \in SUBSET ConfigKeys}

\* Every answer of the configuration build: an error, or one of AllFileTables.
AllConfigSources ==
    {[ok |-> FALSE, table |-> EmptyMap]} \cup {[ok |-> TRUE, table |-> t] : t \in AllFileTables}

\* A load_config whose fallback sets only the first of the two defaults.
LoadConfigHalfDefault(source) ==
    IF source.ok THEN source.table ELSE [exit |-> Str("Escape")]

\* App::load_config: the file's table if it built, the default otherwise.
LoadConfig(source) == IF source.ok THEN source.table ELSE DefaultConfig

\* Cmd::from did not return: into_string().unwrap() met a value that is not
\* a scalar.
CmdPanic == [ok |-> FALSE, cmds |-> EmptyMap]

\* impl From<&config::Config> for Cmd: for each Act in iteration order, if its
\* snake name is a key of the table, the value is turned into a string (a
\* panic if it cannot be) and value -> Act is inserted (a later insert under
\* the same value replaces an earlier one).
RECURSIVE CmdFromIter(_, _, _)
CmdFromIter(table, i, cmds) ==
    IF i > Len(ActIter) THEN [ok |-> TRUE, cmds |-> cmds]
    ELSE LET a == ActIter[i]
             key == Snake(a)
         IN IF key \in DOMAIN table
            THEN LET value == IntoString(table[key])
                 IN IF value.ok
                    THEN CmdFromIter(table, i + 1, HashMapInsert(cmds, value.text, a))
                    ELSE CmdPanic
            ELSE CmdFromIter(table, i + 1, cmds)

CmdFrom(table) == CmdFromIter(table, 1, EmptyMap)

\* ---------------------------------------------------------------- key events

\* winit logical keys: named keys (matched by their Debug name), character
\* keys (matched by their text) and keys that are neither.
Keys ==
    { [kind |-> "Named", text |-> "Escape"],
      [kind |-> "Named", text |-> "Enter"],
      [kind |-> "Character", text |-> "n"],
      [kind |-> "Character", text |-> "N"],
      [kind |-> "Character", text |-> "x"],
      [kind |-> "Character", text |-> "b"],
      [kind |-> "Unidentified", text |-> ""] }

\* event::KeyEvent: the logical key and whether the key went down or up.
KeyEvents == [logical_key : Keys, pressed : BOOLEAN]

\* A key event for calls that carry none.
NoKeyEvent == [logical_key |-> [kind |-> "Unidentified", text |-> ""], pressed |-> FALSE]

\* A lookup that ignores the case of the key: "N" finds the entry of "n".
CmdActIgnoringCase(cmd, event) ==
    LET lower == IF event.logical_key.text = "N" THEN "n" ELSE event.logical_key.text
    IN IF event.logical_key.kind \in {"Named", "Character"} /\ lower \in DOMAIN cmd
       THEN cmd[lower] ELSE NoAct

\* A lookup that answers the default Act, Be, for a key with no entry.
CmdActDefaulting(cmd, event) ==
    IF event.logical_key.kind \in {"Named", "Character"}
       /\ event.logical_key.text \in DOMAIN cmd
    THEN cmd[event.logical_key.text] ELSE "Be"

\* Cmd::act: a named key is looked up by its Debug name, a character key by
\* its text; any other key, and any key with no entry, gives None.
CmdAct(cmd, event) ==
    CASE event.logical_key.kind = "Named" ->
            IF event.logical_key.text \in DOMAIN cmd
            THEN cmd[event.logical_key.text] ELSE NoAct
      [] event.logical_key.kind = "Character" ->
            IF event.logical_key.text \in DOMAIN cmd
            THEN cmd[event.logical_key.text] ELSE NoAct
      [] OTHER -> NoAct

\* ------------------------------------------------------------------- Blame

\* The error types Blame has a derived From for (arrive.rs, the #[from(..)]
\* attributes); Blame::Excuse has none, so no conversion gives it.
BlameSources ==
    {"csv::Error", "winit::error::EventLoopError", "winit::event_loop::EventLoopClosed",
     "std::io::Error", "tokio::sync::oneshot::error::RecvError", "winit::error::OsError",
     "tokio::sync::mpsc::error::SendError"}

\* impl From<..> for Blame, as derived: the variant each error of BlameSources
\* becomes.
BlameFrom(error) ==
    CASE error = "csv::Error" -> "Csv"
      [] error = "winit::error::EventLoopError" -> "EventLoop"
      [] error = "winit::event_loop::EventLoopClosed" -> "EventLoopClosed"
      [] error = "std::io::Error" -> "Io"
      [] error = "tokio::sync::oneshot::error::RecvError" -> "Oneshot"
      [] error = "winit::error::OsError" -> "OsError"
      [] error = "tokio::sync::mpsc::error::SendError" -> "Tokio"

\* ------------------------------------------------------------------ windows

\* WindowAttributes.position and .inner_size when they are not set.
NoPosition == [some |-> FALSE, x |-> 1 - 1, y |-> 1 - 1]

NoInnerSize == [some |-> FALSE, width |-> 1 - 1, height |-> 1 - 1]

\* Default attributes that leave the window opaque.
DefaultAttributesOpaque ==
    [title |-> "Tardy", transparent |-> FALSE, position |-> NoPosition, inner_size |-> NoInnerSize]

\* Window::default_attributes().with_title("Tardy").with_transparent(true).
DefaultAttributes ==
    [title |-> "Tardy", transparent |-> TRUE, position |-> NoPosition, inner_size |-> NoInnerSize]

\* Attributes a caller can supply: a titled, transparent window with the
\* position and the inner size of a frame.
SuppliedAttributes ==
    {[title |-> "Imp", transparent |-> TRUE,
      position |-> [some |-> TRUE, x |-> 60, y |-> 70],
      inner_size |-> [some |-> TRUE, width |-> 300, height |-> 200]]}

\* Option<WindowAttributes>.
NoAttributes == [some |-> FALSE, value |-> DefaultAttributes]

AttributeOptions == {NoAttributes} \cup {[some |-> TRUE, value |-> a] : a \in SuppliedAttributes}

\* A Lens that starts with a redraw pending.
LensNewRefreshing(window) == [refresh |-> TRUE, window |-> window]

\* Lens::new: refresh is false, the window handle is kept.
LensNew(window) == [refresh |-> FALSE, window |-> window]

\* What ActiveEventLoop::create_window can answer: an OS error, or a window
\* whose identity is not that of any live window.
OsOutcomes(liveIds) ==
    {[ok |-> FALSE, id |-> NoId]} \cup {[ok |-> TRUE, id |-> i] : i \in WindowIds \ liveIds}

\* A removal that leaves the OS window open: some other handle keeps it alive.
DropRemovedLeaking(liveIds, w, w2) == liveIds

\* Dropping a Lens drops the only Arc<Window>, which destroys the OS window:
\* the windows whose entries left the table are no longer live.
DropRemoved(liveIds, w, w2) == liveIds \ ((DOMAIN w) \ (DOMAIN w2))

\* A table insert that forgets the entries already there.
WindowsInsertAlone(w, id, lens) == HashMapInsert(EmptyMap, id, lens)

\* create_window's self.windows.insert(window.id(), Lens::new(..)).
WindowsInsert(w, id, lens) == HashMapInsert(w, id, lens)

\* A create_window that answers Ok when the OS refused.
CreateWindowSwallowing(w, liveIds, attributes, os) ==
    LET attr == IF attributes.some THEN attributes.value ELSE DefaultAttributes
    IN IF ~os.ok
       THEN [windows |-> w, live |-> liveIds, result |-> "Ok", newid |-> NoId]
       ELSE [windows |-> WindowsInsert(w, os.id, LensNew([id |-> os.id, attr |-> attr])),
             live |-> liveIds \cup {os.id},
             result |-> "Ok",
             newid |-> os.id]

\* App::create_window: the supplied attributes or the defaults; on an OS error
\* the error is returned (Blame::OsError) and the table is untouched; otherwise
\* a Lens for the new window is inserted under the window's id.
CreateWindow(w, liveIds, attributes, os) ==
    LET attr == IF attributes.some THEN attributes.value ELSE DefaultAttributes
    IN IF ~os.ok
       THEN [windows |-> w, live |-> liveIds, result |-> BlameFrom("winit::error::OsError"), newid |-> NoId]
       ELSE [windows |-> WindowsInsert(w, os.id, LensNew([id |-> os.id, attr |-> attr])),
             live |-> liveIds \cup {os.id},
             result |-> "Ok",
             newid |-> os.id]

\* A CloseWindow that closes every window.
ActCloseWindowAll(w, id) == HashMapClear(w)

\* A CloseWindow that, when id has no entry, closes some other window.
ActCloseWindowSomeOther(w, id) ==
    IF id \in DOMAIN w \/ IsEmpty(w) THEN HashMapRemove(w, id)
    ELSE HashMapRemove(w, CHOOSE k \in DOMAIN w : TRUE)

\* App::act, the CloseWindow arm: remove id's entry, if any; Ok.
ActCloseWindow(w, id) == HashMapRemove(w, id)

\* An Exit that closes only the window it was given.
ActExitOnlyNamed(w, id) == HashMapRemove(w, id)

\* App::act, the Exit arm: clear the table, whatever id is; Ok.
ActExit(w, id) == HashMapClear(w)

\* A Be that closes the window it was given.
ActBeClosing(w, id) == HashMapRemove(w, id)

\* App::act, the Be arm: nothing; Ok.
ActBe(w, id) == w

\* App::act: the match on the Act variant.
AppAct(w, liveIds, act, id, os) ==
    CASE act = "CloseWindow" ->
            LET w2 == ActCloseWindow(w, id)
            IN [windows |-> w2, live |-> DropRemoved(liveIds, w, w2),
                result |-> "Ok", newid |-> NoId]
      [] act = "Exit" ->
            LET w2 == ActExit(w, id)
            IN [windows |-> w2, live |-> DropRemoved(liveIds, w, w2),
                result |-> "Ok", newid |-> NoId]
      [] act = "NewWindow" -> CreateWindow(w, liveIds, NoAttributes, os)
      [] act = "Be" ->
            LET w2 == ActBe(w, id)
            IN [windows |-> w2, live |-> DropRemoved(liveIds, w, w2),
                result |-> "Ok", newid |-> NoId]

\* A press test that takes a release for a press.
IsPressedAlways(event) == TRUE

\* App::keyboard_input, the press test: event.state.is_pressed().
IsPressed(event) == event.pressed

\* A keyboard_input that drops the error of the Act it applied.
KeyboardInputSwallowing(w, liveIds, cmd, id, event, os) ==
    LET act == IF IsPressed(event) THEN CmdAct(cmd, event) ELSE NoAct
    IN IF act # NoAct
       THEN [acted |-> act] @@ [AppAct(w, liveIds, act, id, os) EXCEPT !.result = "Ok"]
       ELSE [acted |-> NoAct, windows |-> w, live |-> liveIds, result |-> "Ok", newid |-> NoId]

\* App::keyboard_input: only on a press, the key is looked up in cmd and, if
\* it resolves, the Act is applied to id and an error is passed on; Ok otherwise.
KeyboardInput(w, liveIds, cmd, id, event, os) ==
    LET act == IF IsPressed(event) THEN CmdAct(cmd, event) ELSE NoAct
    IN IF act # NoAct
       THEN [acted |-> act] @@ AppAct(w, liveIds, act, id, os)
       ELSE [acted |-> NoAct, windows |-> w, live |-> liveIds, result |-> "Ok", newid |-> NoId]

\* ------------------------------------------------------------ window events

\* The WindowEvent variants the handler tells apart; Resized stands for every
\* variant that falls to the `_ => ()` arm.
WindowEventKinds == {"CloseRequested", "KeyboardInput", "RedrawRequested", "Resized"}

\* The key events the OS also delivers as synthetic ones (on a focus change):
\* presses and releases of the keys the default table binds.
SyntheticKeyEvents ==
    {e \in KeyEvents : e.logical_key.text \in {"Escape", "n"}}

\* WindowEvent values: KeyboardInput carries a key event and is_synthetic.
WindowEvents ==
    {[kind |-> k, event |-> NoKeyEvent, is_synthetic |-> FALSE] :
        k \in WindowEventKinds \ {"KeyboardInput"}}
    \cup [kind : {"KeyboardInput"}, event : KeyEvents, is_synthetic : {FALSE}]
    \cup [kind : {"KeyboardInput"}, event : SyntheticKeyEvents, is_synthetic : {TRUE}]

\* A window event for calls that carry none.
NoWindowEvent == [kind |-> "None", event |-> NoKeyEvent, is_synthetic |-> FALSE]

\* The accesskit_winit::Event kinds a proxy can send to the loop.
UserEvents == {"InitialTreeRequested", "ActionRequested", "AccessibilityDeactivated"}

\* window_event, the RedrawRequested arm: a redraw is requested, and the flag
\* reset, only when the Lens's refresh flag is set.
RedrawLens(lens) == IF lens.refresh THEN [lens EXCEPT !.refresh = FALSE] ELSE lens

\* A CloseRequested that leaves the window's entry in the table.
CloseRequestedKeeping(w, id) == w

\* A CloseRequested that closes every window.
CloseRequestedAll(w, id) == HashMapClear(w)

\* window_event, the CloseRequested arm: the window's entry is removed.
CloseRequested(w, id) == HashMapRemove(w, id)

\* A window_event that does not look the id up before it dispatches.
WindowEventUnguarded(w, liveIds, cmd, id, wevent, os) ==
    LET same == [windows |-> w, live |-> liveIds, acted |-> NoAct, inner |-> "NotCalled",
                 newid |-> NoId, redraw |-> FALSE]
    IN CASE wevent.kind = "CloseRequested" ->
                LET w2 == CloseRequested(w, id)
                IN [same EXCEPT !.windows = w2, !.live = DropRemoved(liveIds, w, w2)]
          [] wevent.kind = "KeyboardInput" /\ ~wevent.is_synthetic ->
                LET r == KeyboardInput(w, liveIds, cmd, id, wevent.event, os)
                IN [windows |-> r.windows, live |-> r.live, acted |-> r.acted,
                    inner |-> r.result, newid |-> r.newid, redraw |-> FALSE]
          [] wevent.kind = "RedrawRequested" /\ id \in DOMAIN w ->
                [same EXCEPT !.windows = [w EXCEPT ![id] = RedrawLens(w[id])],
                             !.redraw = w[id].refresh]
          [] OTHER -> same

\* ApplicationHandler::window_event: an event for an id with no entry is
\* dropped; CloseRequested removes the entry; a non-synthetic KeyboardInput
\* goes to keyboard_input, whose error is only logged; RedrawRequested looks at
\* the refresh flag; everything else is ignored.
WindowEvent(w, liveIds, cmd, id, wevent, os) ==
    LET same == [windows |-> w, live |-> liveIds, acted |-> NoAct, inner |-> "NotCalled",
                 newid |-> NoId, redraw |-> FALSE]
    IN IF id \notin DOMAIN w THEN same
       ELSE CASE wevent.kind = "CloseRequested" ->
                    LET w2 == CloseRequested(w, id)
                    IN [same EXCEPT !.windows = w2, !.live = DropRemoved(liveIds, w, w2)]
              [] wevent.kind = "KeyboardInput" /\ ~wevent.is_synthetic ->
                    LET r == KeyboardInput(w, liveIds, cmd, id, wevent.event, os)
                    IN [windows |-> r.windows, live |-> r.live, acted |-> r.acted,
                        inner |-> r.result, newid |-> r.newid, redraw |-> FALSE]
              [] wevent.kind = "RedrawRequested" ->
                    [same EXCEPT !.windows = [w EXCEPT ![id] = RedrawLens(w[id])],
                                 !.redraw = w[id].refresh]
              [] OTHER -> same

\* An expect that lets an error pass.
ExpectLogs(result) == FALSE

\* resumed's .expect("Could not create window."): an Err panics.
Expect(result) == result # "Ok"

\* An about_to_wait that never requests exit.
AboutToWaitExitsNever(w) == FALSE

\* An about_to_wait that requests exit whatever the table holds.
AboutToWaitExitsAlways(w) == TRUE

\* ApplicationHandler::about_to_wait: exit is requested when the table is empty.
AboutToWaitExits(w) == IsEmpty(w)

\* ------------------------------------------------------------------ Frame

\* A u32 is held as the integer with the same 32 bits in two's complement:
\* itself below 2^31, and itself minus 2^32 from 2^31 up.  On these, the
\* wrapping difference of two u32 is the integer difference.

\* const MIN_SPAN: u32.
MIN_SPAN == 50

\* How many values at each end of a long range the draws are taken from.
EdgeDraws == 2

\* a < b, on u32.
BelowU32(a, b) == IF (a >= 1 - 1) = (b >= 1 - 1) THEN a < b ELSE b < 1 - 1

\* a - b on u32: a panic in a build with overflow checks when a < b, and the
\* difference modulo 2^32 otherwise.
SubU32(a, b, checks) ==
    IF checks /\ BelowU32(a, b) THEN [ok |-> FALSE, value |-> 1 - 1]
    ELSE [ok |-> TRUE, value |-> a - b]

\* A gen_range over the closed range lo..=hi.
GenRangeClosed(lo, hi) ==
    IF BelowU32(hi, lo) THEN {}
    ELSE IF hi - lo < 1 - 1 \/ hi - lo > 2 * EdgeDraws
         THEN {lo + i : i \in (1 - 1)..(EdgeDraws - 1)} \cup {hi - i : i \in (1 - 1)..(EdgeDraws - 1)}
         ELSE lo..hi

\* rng.gen_range(lo..hi): every value from lo up to hi - 1 when the range is
\* short, the EdgeDraws first and last of them when it is long, and none (the
\* call panics) when the range is empty.
GenRange(lo, hi) ==
    IF ~BelowU32(lo, hi) THEN {}
    ELSE IF hi - lo < 1 - 1 \/ hi - lo > 2 * EdgeDraws
         THEN {lo + i : i \in (1 - 1)..(EdgeDraws - 1)} \cup {hi - i : i \in 1..EdgeDraws}
         ELSE lo..(hi - 1)

\* A size drawn up to the monitor's span, with no padding kept free.
SizesUnpadded(span, checks) == GenRange(MIN_SPAN, span)

\* The width (height) drawn for a monitor of the given span.
Sizes(span, checks) ==
    LET limit == SubU32(span, MIN_SPAN, checks)
    IN IF limit.ok THEN GenRange(MIN_SPAN, limit.value) ELSE {}

\* A position drawn anywhere on the monitor, whatever the size of the window.
PositionsUnclipped(span, size, checks) == GenRange(MIN_SPAN, span)

\* The x (y) drawn for a monitor of the given span and a window of the given size.
Positions(span, size, checks) ==
    LET clip == SubU32(span, size, checks)
    IN IF clip.ok THEN GenRange(MIN_SPAN, clip.value) ELSE {}

\* Frame::from did not return: a subtraction or a gen_range panicked.
FramePanic ==
    [status |-> "panic", x |-> 1 - 1, y |-> 1 - 1, width |-> 1 - 1, height |-> 1 - 1]

\* impl From<MonitorHandle> for Frame: every outcome, over the random draws.
FrameFrom(monitor, checks) ==
    LET widths == Sizes(monitor.width, checks)
        heights == IF widths = {} THEN {} ELSE Sizes(monitor.height, checks)
        returned ==
            UNION {UNION {
                {[status |-> "Frame", x |-> x, y |-> y, width |-> width, height |-> height] :
                    x \in Positions(monitor.width, width, checks),
                    y \in Positions(monitor.height, height, checks)}
                : height \in heights} : width \in widths}
        panics ==
            \/ widths = {}
            \/ heights = {}
            \/ \E width \in widths, height \in heights :
                  \/ Positions(monitor.width, width, checks) = {}
                  \/ Positions(monitor.height, height, checks) = {}
    IN returned \cup (IF panics THEN {FramePanic} ELSE {})

\* The spans of the monitors Frame::from is given.
MonitorSpans == {1 - 1, 40, 50, 100, 101, 102, 105, 1920}

\* ---------------------------------------------------------------- queries

\* The largest count random_monitors and frames are asked for.
MaxCount == 2

\* A monitor::MonitorHandle: which monitor, and what size() answers for it.
MonitorHandle(id, width, height) == [id |-> id, size |-> [width |-> width, height |-> height]]

\* What available_monitors() can enumerate: nothing; one monitor; two; and two
\* of which the second is no larger than 2 * MIN_SPAN.
MonitorLists ==
    {<<>>,
     <<MonitorHandle(1, 101, 101)>>,
     <<MonitorHandle(1, 101, 101), MonitorHandle(2, 102, 101)>>,
     <<MonitorHandle(1, 101, 101), MonitorHandle(2, 100, 100)>>}

\* What outer_size() answers for a window.
WindowSizes == {[width |-> 800, height |-> 600]}

\* Option::None, Option::Some(items), and a query that panicked.
NoneAnswer == [status |-> "None", items |-> <<>>]

SomeAnswer(items) == [status |-> "Some", items |-> items]

PanicAnswer == [status |-> "panic", items |-> <<>>]

\* The orders in which HashMap::values() can visit the keys in S.
Orders(S) ==
    {f \in [1..Cardinality(S) -> S] : \A i, j \in 1..Cardinality(S) : i # j => f[i] # f[j]}

\* App::screen_sizes.
ScreenSizes(w, monitors) ==
    IF ~IsEmpty(w)
    THEN {SomeAnswer([i \in DOMAIN monitors |-> monitors[i].size])}
    ELSE {NoneAnswer}

\* App::default_window_size.
DefaultWindowSize(w, size) == IF ~IsEmpty(w) THEN {SomeAnswer(<<size>>)} ELSE {NoneAnswer}

\* A lenses that answers an empty list when there is no window.
LensesEmptyList(w) == {SomeAnswer([i \in DOMAIN f |-> w[f[i]]]) : f \in Orders(DOMAIN w)}

\* App::lenses.
Lenses(w) ==
    IF ~IsEmpty(w)
    THEN {SomeAnswer([i \in DOMAIN f |-> w[f[i]]]) : f \in Orders(DOMAIN w)}
    ELSE {NoneAnswer}

\* App::monitors; lenses[0] panics on an empty list.
Monitors(w, monitors) ==
    UNION {IF lenses.status = "Some"
           THEN IF Len(lenses.items) = 1 - 1 THEN {PanicAnswer} ELSE {SomeAnswer(monitors)}
           ELSE {NoneAnswer} : lenses \in Lenses(w)}

\* App::random_monitor; gen_range(0..0) panics.
RandomMonitor(w, monitors) ==
    UNION {IF m.status = "Some"
           THEN IF Len(m.items) = 1 - 1 THEN {PanicAnswer}
                ELSE {SomeAnswer(<<m.items[idx]>>) : idx \in DOMAIN m.items}
           ELSE {m} : m \in Monitors(w, monitors)}

\* A random_monitors that picks no more monitors than there are.
RandomMonitorsCapped(w, monitors, count) ==
    UNION {IF m.status = "Some"
           THEN {SomeAnswer([i \in 1..(IF count < Len(m.items) THEN count ELSE Len(m.items))
                                |-> m.items[i]])}
           ELSE {m} : m \in Monitors(w, monitors)}

\* App::random_monitors(count): the loop body runs count times, and its
\* gen_range(0..0) panics.
RandomMonitors(w, monitors, count) ==
    UNION {IF m.status = "Some"
           THEN IF count >= 1 /\ Len(m.items) = 1 - 1 THEN {PanicAnswer}
                ELSE {SomeAnswer([i \in 1..count |-> m.items[idx[i]]]) :
                         idx \in [1..count -> DOMAIN m.items]}
           ELSE {m} : m \in Monitors(w, monitors)}

\* The Frame that Frame::from returned for a monitor.
NewFrame(monitor, out) ==
    [monitor |-> monitor, position |-> [x |-> out.x, y |-> out.y],
     size |-> [width |-> out.width, height |-> out.height]]

\* Frame::from for each of the handles, in order; one panic ends the call.
CollectFrames(handles, checks) ==
    LET outs == UNION {FrameFrom(handles[i].size, checks) : i \in DOMAIN handles}
        draws == {f \in [DOMAIN handles -> outs] :
                     \A i \in DOMAIN handles : f[i] \in FrameFrom(handles[i].size, checks)}
    IN {IF \E i \in DOMAIN handles : f[i].status = "panic"
        THEN PanicAnswer
        ELSE SomeAnswer([i \in DOMAIN handles |-> NewFrame(handles[i], f[i])]) : f \in draws}

\* App::frame.
AppFrame(w, monitors, checks) ==
    UNION {IF m.status = "Some" THEN CollectFrames(m.items, checks) ELSE {m} :
              m \in RandomMonitor(w, monitors)}

\* App::frames(count).
AppFrames(w, monitors, count, checks) ==
    UNION {IF m.status = "Some" THEN CollectFrames(m.items, checks) ELSE {m} :
              m \in RandomMonitors(w, monitors, count)}

\* The queries of App.
QueryNames ==
    {"screen_sizes", "default_window_size", "lenses", "monitors", "random_monitor",
     "random_monitors", "frame", "frames"}

\* The counts a query can be given: the two with a count parameter take any.
CountsFor(name) ==
    IF name \in {"random_monitors", "frames"} THEN (1 - 1)..MaxCount ELSE {1 - 1}

\* The monitor lists that matter to a query: all of them when there is a
\* window to ask, and one (never looked at) when there is not.
MonitorsFor(w) == IF ~IsEmpty(w) THEN MonitorLists ELSE {<<>>}

\* The answers of the named query.
Answers(name, w, monitors, count, size, checks) ==
    CASE name = "screen_sizes" -> ScreenSizes(w, monitors)
      [] name = "default_window_size" -> DefaultWindowSize(w, size)
      [] name = "lenses" -> Lenses(w)
      [] name = "monitors" -> Monitors(w, monitors)
      [] name = "random_monitor" -> RandomMonitor(w, monitors)
      [] name = "random_monitors" -> RandomMonitors(w, monitors, count)
      [] name = "frame" -> AppFrame(w, monitors, checks)
      [] name = "frames" -> AppFrames(w, monitors, count, checks)

\* ------------------------------------------------------------- event bridge

\* The most sends one producer makes.
MaxSends == 2

\* The producers of relayed requests: tasks that hold a clone of the proxy.
Producers == 1..2

\* A user event that relays no request.
NoRequest == [act |-> NoAct, frame |-> FALSE]

\* What each producer relays: the first asks for new windows and sends a frame
\* with each request, the second asks for a window to be closed.
RequestOf(p) ==
    IF p = 1 THEN [act |-> "NewWindow", frame |-> TRUE]
    ELSE [act |-> "CloseWindow", frame |-> FALSE]

\* The bridge before anything is sent: how many requests each producer has
\* sent, the requests in flight, the requests user_event has handled, the
\* requests whose send failed, and the error each producer was given.
NoBridge ==
    [sent |-> [p \in Producers |-> 1 - 1], channel |-> <<>>, handled |-> <<>>,
     refused |-> {}, error |-> [p \in Producers |-> "None"]]

\* A send that puts the request in the channel although the loop has terminated.
ProxySendQueuing(b, p, closed) ==
    [b EXCEPT !.sent[p] = @ + 1,
              !.channel = Append(@, [producer |-> p, seq |-> b.sent[p] + 1,
                                     request |-> RequestOf(p), closed |-> closed])]

\* proxy.send_event(..)? by producer p: the request joins the channel, or,
\* when the loop has terminated, the send fails and p is given the Blame.
ProxySend(b, p, closed) ==
    LET msg == [producer |-> p, seq |-> b.sent[p] + 1, request |-> RequestOf(p),
                closed |-> closed]
    IN IF closed
       THEN [b EXCEPT !.sent[p] = @ + 1, !.refused = @ \cup {msg},
                      !.error[p] = BlameFrom("winit::event_loop::EventLoopClosed")]
       ELSE [b EXCEPT !.sent[p] = @ + 1, !.channel = Append(@, msg)]

\* A channel that hands over the request sent last.
ReceiveNewest(channel) ==
    [msg |-> channel[Len(channel)], rest |-> SubSeq(channel, 1, Len(channel) - 1)]

\* The loop takes the next request from the channel: the one sent first.
Receive(channel) == [msg |-> Head(channel), rest |-> Tail(channel)]

\* ------------------------------------------------------------------- state

VARIABLES
    config,     \* App.config: the table the bindings are read from
    cmd,        \* App.cmd: key text -> Act
    windows,    \* App.windows: WindowId -> Lens
    live,       \* the OS windows that exist (created and not destroyed)
    started,    \* the event loop has delivered its first resumed
    exit,       \* ActiveEventLoop::exit() has been called
    panicked,   \* the process has panicked
    hadWindow,  \* the table has held at least one window
    last,       \* the call that produced this state, with its arguments and results
    before,     \* App.windows as it was when that call began
    source,     \* what building the configuration file gave App::new
    pc,         \* how far App::new has got: "new", "configured", "ready"
    probe,      \* the last key looked up in cmd, and the answer
    phase,      \* how far the run has followed the create / press n / Exit / wait trace
    frame,      \* a monitor handed to Frame::from, the build, and the outcome
    query,      \* the geometry query just answered, if the last call was one
    bridge      \* the proxy's channel, and what the producers and user_event did with it

vars == <<config, cmd, windows, live, started, exit, panicked, hadWindow, last, before,
          source, pc, probe, phase, frame, query, bridge>>

\* The record of a call; each field is "None"/NoId/FALSE where it does not apply.
NoCall ==
    [op |-> "new", act |-> NoAct, id |-> NoId, event |-> NoKeyEvent,
     wevent |-> NoWindowEvent, attributes |-> NoAttributes, os |-> "NotAsked",
     newid |-> NoId, result |-> "Unit", acted |-> NoAct, inner |-> "NotCalled",
     had |-> FALSE, redraw |-> FALSE, exits |-> FALSE, request |-> NoRequest]

\* Whether create_window asked the OS, and what it answered.
OsAnswer(asked, os) == IF ~asked THEN "NotAsked" ELSE IF os.ok THEN "Created" ELSE "Refused"

\* The OS's answers that matter to a call: all of them when the call reaches
\* create_window, and one (never looked at) when it does not.
OsFor(asked, liveIds) == IF asked THEN OsOutcomes(liveIds) ELSE {[ok |-> FALSE, id |-> NoId]}

\* Whether keyboard_input reaches create_window: a press of a key bound to NewWindow.
KeyCreates(event) == IsPressed(event) /\ CmdAct(cmd, event) = "NewWindow"

\* Whether window_event reaches create_window.
EventCreates(id, wevent) ==
    /\ id \in DOMAIN windows
    /\ wevent.kind = "KeyboardInput"
    /\ ~wevent.is_synthetic
    /\ KeyCreates(wevent.event)

\* No key looked up yet.
NoProbe == [event |-> NoKeyEvent, act |-> NoAct]

\* No monitor handed to Frame::from.
NoFrame == [monitor |-> [width |-> 1 - 1, height |-> 1 - 1], checks |-> TRUE,
            out |-> [status |-> "none", x |-> 1 - 1, y |-> 1 - 1,
                     width |-> 1 - 1, height |-> 1 - 1]]

\* No query made.
NoQuery == [name |-> "none", count |-> 1 - 1, monitors |-> <<>>, checks |-> TRUE,
            answer |-> [status |-> "none", items |-> <<>>]]

\* The table and the loop as App::new and main leave them.
SessionInit ==
    /\ windows = EmptyMap
    /\ live = {}
    /\ started = FALSE
    /\ exit = FALSE
    /\ hadWindow = FALSE
    /\ last = NoCall
    /\ before = EmptyMap
    /\ phase = "start"
    /\ bridge = NoBridge

\* App::new: an empty table, then load_config and load_cmds.
Init ==
    /\ source \in ConfigSources
    /\ config = LoadConfig(source)
    /\ cmd = CmdFrom(LoadConfig(source)).cmds
    /\ pc = (IF CmdFrom(LoadConfig(source)).ok THEN "ready" ELSE "panicked")
    /\ panicked = ~CmdFrom(LoadConfig(source)).ok
    /\ probe = NoProbe
    /\ frame = NoFrame
    /\ query = NoQuery
    /\ SessionInit

\* ------------------------------------------------- App::new, step by step

\* App::new before load_config: Cmd::default(), Config::default(), and what
\* the configuration build is going to answer.
ConfigInit ==
    /\ panicked = FALSE
    /\ source \in AllConfigSources
    /\ config = EmptyMap
    /\ cmd = EmptyMap
    /\ pc = "new"
    /\ probe = NoProbe
    /\ frame = NoFrame
    /\ query = NoQuery
    /\ SessionInit

\* What load_config, load_cmds and a lookup leave alone.
SessionUnchanged ==
    UNCHANGED <<windows, live, started, exit, hadWindow, frame, bridge>>

\* A call that changes no table of windows is recorded; it is no step of
\* the trace that phase follows.
Recorded(op) ==
    /\ last' = [NoCall EXCEPT !.op = op, !.had = hadWindow]
    /\ phase' = "off"
    /\ before' = windows
    /\ query' = NoQuery
    /\ probe' = NoProbe

\* app.load_config(): inside App::new on the source the app starts with, and
\* as a call on the app afterwards, on whatever the file then holds.
LoadConfigStep ==
    /\ pc \in {"new", "ready", "reconfigured"}
    /\ ~exit /\ ~panicked
    /\ \E src \in (IF pc = "new" THEN {source} ELSE ConfigSources) :
          /\ source' = src
          /\ config' = LoadConfig(src)
    /\ pc' = (IF pc = "new" THEN "configured" ELSE "reconfigured")
    /\ Recorded("load_config")
    /\ UNCHANGED <<cmd, panicked>>
    /\ SessionUnchanged

\* app.load_cmds(): inside App::new after load_config, and as a call on the
\* app afterwards; the unwrap in Cmd::from ends the process.
LoadCmdsStep ==
    /\ pc \in {"configured", "ready", "reconfigured"}
    /\ ~exit /\ ~panicked
    /\ cmd' = (IF CmdFrom(config).ok THEN CmdFrom(config).cmds ELSE cmd)
    /\ panicked' = ~CmdFrom(config).ok
    /\ pc' = (IF CmdFrom(config).ok THEN "ready" ELSE "panicked")
    /\ Recorded("load_cmds")
    /\ UNCHANGED <<source, config>>
    /\ SessionUnchanged

\* self.cmd.act(event), for any key event.
Lookup ==
    /\ pc \in {"ready", "reconfigured"}
    /\ \E event \in KeyEvents : probe' = [event |-> event, act |-> CmdAct(cmd, event)]
    /\ UNCHANGED <<source, config, cmd, pc, panicked, last, before, query, phase>>
    /\ SessionUnchanged

ConfigNext ==
    \/ LoadConfigStep
    \/ LoadCmdsStep
    \/ Lookup

\* Building the key-binding table, at startup and by later calls of load_config
\* and load_cmds, and looking keys up in it.
ConfigSpec == ConfigInit /\ [][ConfigNext]_vars

\* --------------------------------------------------- Frame::from, alone

\* A monitor and a build; nothing has been framed yet.
FrameInit ==
    /\ panicked = FALSE
    /\ source = [ok |-> FALSE, table |-> EmptyMap]
    /\ config = LoadConfig(source)
    /\ cmd = CmdFrom(LoadConfig(source)).cmds
    /\ pc = "ready"
    /\ probe = NoProbe
    /\ query = NoQuery
    /\ \E width \in MonitorSpans, height \in MonitorSpans, checks \in BOOLEAN :
          frame = [NoFrame EXCEPT !.monitor = [width |-> width, height |-> height],
                                  !.checks = checks]
    /\ SessionInit

\* Frame::from(monitor).
BuildFrame ==
    /\ frame.out.status = "none"
    /\ \E out \in FrameFrom(frame.monitor, frame.checks) : frame' = [frame EXCEPT !.out = out]
    /\ UNCHANGED <<source, config, cmd, pc, probe, query>>
    /\ UNCHANGED <<windows, live, started, exit, panicked, hadWindow, last, before, phase,
                   bridge>>

FrameNext == BuildFrame

\* Framing one monitor, in a build with or without overflow checks.
FrameSpec == FrameInit /\ [][FrameNext]_vars

\* --------------------------------------------------------- the session

\* The app the queries are put to: built from the default configuration, in
\* a build with or without overflow checks.
QueryInit ==
    /\ panicked = FALSE
    /\ source = [ok |-> FALSE, table |-> EmptyMap]
    /\ config = LoadConfig(source)
    /\ cmd = CmdFrom(LoadConfig(source)).cmds
    /\ pc = "ready"
    /\ probe = NoProbe
    /\ query = NoQuery
    /\ \E checks \in BOOLEAN : frame = [NoFrame EXCEPT !.checks = checks]
    /\ SessionInit

\* The loop runs its handlers until exit is requested or the process panics.
Running == ~exit /\ ~panicked

\* What every call leaves behind: the table before it and whether a window
\* has ever been held.
StepTable(w2) ==
    /\ windows' = w2
    /\ before' = windows
    /\ hadWindow' = (hadWindow \/ ~IsEmpty(w2))
    /\ query' = NoQuery
    /\ UNCHANGED <<config, cmd, source, pc, probe, frame>>

\* A call that is not the delivery of a relayed request leaves the bridge alone.
Step(w2) == StepTable(w2) /\ UNCHANGED bridge

\* Whether call c is the next step of the trace: from no window, a
\* create_window(None) that succeeds (resumed makes the same call); then a press
\* of "n", bound to NewWindow, sent to an open window, that succeeds; then
\* act(Exit, id); then about_to_wait. Any other call leaves the trace.
NextPhase(c) ==
    CASE phase = "start" /\ c.op \in {"create_window", "resumed"}
            /\ ~c.attributes.some /\ c.os = "Created" -> "one"
      [] phase = "one" /\ c.op \in {"keyboard_input", "window_event"}
            /\ c.id \in DOMAIN windows
            /\ c.event.pressed /\ c.event.logical_key.text = "n"
            /\ c.acted = "NewWindow" /\ c.os = "Created" -> "two"
      [] phase = "two" /\ c.op = "act" /\ c.act = "Exit" -> "zero"
      [] phase = "zero" /\ c.op = "about_to_wait" -> "done"
      [] OTHER -> "off"

\* The call is recorded, and the trace followed.
Called(c) ==
    /\ last' = c
    /\ phase' = NextPhase(c)

\* A direct call of App::create_window.
CallCreateWindow ==
    /\ Running
    /\ \E attributes \in AttributeOptions, os \in OsOutcomes(live) :
          LET r == CreateWindow(windows, live, attributes, os)
          IN /\ Step(r.windows)
             /\ live' = r.live
             /\ Called([NoCall EXCEPT !.op = "create_window", !.attributes = attributes,
                                       !.os = OsAnswer(TRUE, os), !.newid = r.newid,
                                       !.result = r.result, !.had = hadWindow])
    /\ UNCHANGED <<started, exit, panicked>>

\* A direct call of App::act.
CallAct ==
    /\ Running
    /\ \E act \in Acts, id \in CallIds :
       \E os \in OsFor(act = "NewWindow", live) :
          LET r == AppAct(windows, live, act, id, os)
          IN /\ Step(r.windows)
             /\ live' = r.live
             /\ Called([NoCall EXCEPT !.op = "act", !.act = act, !.id = id,
                                       !.os = OsAnswer(act = "NewWindow", os),
                                       !.newid = r.newid, !.result = r.result,
                                       !.acted = act, !.had = hadWindow])
    /\ UNCHANGED <<started, exit, panicked>>

\* A direct call of App::keyboard_input.
CallKeyboardInput ==
    /\ Running
    /\ \E id \in CallIds, event \in KeyEvents :
       \E os \in OsFor(KeyCreates(event), live) :
          LET r == KeyboardInput(windows, live, cmd, id, event, os)
          IN /\ Step(r.windows)
             /\ live' = r.live
             /\ Called([NoCall EXCEPT !.op = "keyboard_input", !.id = id, !.event = event,
                                       !.os = OsAnswer(r.acted = "NewWindow", os),
                                       !.newid = r.newid, !.result = r.result,
                                       !.acted = r.acted, !.had = hadWindow])
    /\ UNCHANGED <<started, exit, panicked>>

\* ApplicationHandler::resumed: create_window(None).expect(..): a refusal panics.
Resumed ==
    /\ Running
    /\ \E os \in OsOutcomes(live) :
          LET r == CreateWindow(windows, live, NoAttributes, os)
          IN /\ Step(r.windows)
             /\ live' = r.live
             /\ panicked' = Expect(r.result)
             /\ Called([NoCall EXCEPT !.op = "resumed", !.os = OsAnswer(TRUE, os),
                                       !.newid = r.newid, !.inner = r.result,
                                       !.had = hadWindow])
    /\ started' = TRUE
    /\ UNCHANGED exit

\* ApplicationHandler::user_event: the event is logged and nothing else.
UserEvent ==
    /\ Running /\ started
    /\ \E ev \in UserEvents :
          /\ Step(windows)
          /\ Called([NoCall EXCEPT !.op = "user_event", !.act = ev, !.had = hadWindow])
    /\ UNCHANGED <<live, started, exit, panicked>>

\* ApplicationHandler::window_event, for one of the given events.
HandleWindowEventOf(events) ==
    /\ Running /\ started
    /\ \E id \in CallIds, wevent \in events :
       \E os \in OsFor(EventCreates(id, wevent), live) :
          LET r == WindowEvent(windows, live, cmd, id, wevent, os)
          IN /\ Step(r.windows)
             /\ live' = r.live
             /\ Called([NoCall EXCEPT !.op = "window_event", !.id = id, !.wevent = wevent,
                                       !.event = wevent.event,
                                       !.os = OsAnswer(r.acted = "NewWindow", os),
                                       !.newid = r.newid, !.acted = r.acted,
                                       !.inner = r.inner, !.redraw = r.redraw,
                                       !.had = hadWindow])
    /\ UNCHANGED <<started, exit, panicked>>

\* ApplicationHandler::window_event.
HandleWindowEvent == HandleWindowEventOf(WindowEvents)

\* ApplicationHandler::about_to_wait.
AboutToWait ==
    /\ Running /\ started
    /\ Step(windows)
    /\ exit' = AboutToWaitExits(windows)
    /\ Called([NoCall EXCEPT !.op = "about_to_wait", !.exits = AboutToWaitExits(windows),
                              !.had = hadWindow])
    /\ UNCHANGED <<live, started, panicked>>

\* One of the queries of App; none of them changes the app, and a panic ends
\* the process.
Query ==
    /\ Running
    /\ \E name \in QueryNames, monitors \in MonitorsFor(windows), size \in WindowSizes :
       \E count \in CountsFor(name) :
       \E answer \in Answers(name, windows, monitors, count, size, frame.checks) :
          /\ query' = [name |-> name, count |-> count, monitors |-> monitors,
                       checks |-> frame.checks, answer |-> answer]
          /\ panicked' = (answer.status = "panic")
    /\ windows' = windows
    /\ before' = windows
    /\ Called([NoCall EXCEPT !.op = "query", !.had = hadWindow])
    /\ UNCHANGED <<config, cmd, source, pc, probe, frame, live, started, exit, hadWindow,
                   bridge>>

QueryNext ==
    \/ CallCreateWindow
    \/ CallAct
    \/ Query

\* Windows opened and closed by direct calls, and queries put in between.
QuerySpec == QueryInit /\ [][QueryNext]_vars

\* The app the producers send to: built from the default configuration.
BridgeInit ==
    /\ panicked = FALSE
    /\ source = [ok |-> FALSE, table |-> EmptyMap]
    /\ config = LoadConfig(source)
    /\ cmd = CmdFrom(LoadConfig(source)).cmds
    /\ pc = "ready"
    /\ probe = NoProbe
    /\ query = NoQuery
    /\ frame = NoFrame
    /\ SessionInit

\* The window events that open or close windows under the default bindings:
\* CloseRequested, and presses of n and of Escape.
TableEvents ==
    {e \in WindowEvents :
        \/ e.kind = "CloseRequested"
        \/ /\ e.kind = "KeyboardInput" /\ ~e.is_synthetic /\ e.event.pressed
           /\ e.event.logical_key.text \in {"n", "Escape"}}

\* ApplicationHandler::window_event, for the events that open or close windows.
HandleTableEvent == HandleWindowEventOf(TableEvents)

\* A producer sends its next request through its clone of the proxy. A
\* producer whose send failed sends no more; none outlives the process.
Send ==
    /\ ~panicked
    /\ \E p \in Producers :
          /\ bridge.sent[p] < MaxSends
          /\ bridge.error[p] = "None"
          /\ bridge' = ProxySend(bridge, p, exit)
    /\ UNCHANGED <<config, cmd, windows, live, started, exit, panicked, hadWindow, last,
                   before, source, pc, probe, phase, frame, query>>

\* The loop hands the next relayed request to ApplicationHandler::user_event,
\* which logs the event and does nothing else.
Deliver ==
    /\ Running /\ started
    /\ bridge.channel # <<>>
    /\ LET r == Receive(bridge.channel)
       IN /\ StepTable(windows)
          /\ Called([NoCall EXCEPT !.op = "user_event", !.request = r.msg.request,
                                    !.had = hadWindow])
          /\ bridge' = [bridge EXCEPT !.channel = r.rest, !.handled = Append(@, r.msg)]
    /\ UNCHANGED <<live, started, exit, panicked>>

BridgeNext ==
    \/ Resumed
    \/ HandleTableEvent
    \/ AboutToWait
    \/ Send
    \/ Deliver

\* The event loop with producers sending relayed requests to it.
BridgeSpec == BridgeInit /\ [][BridgeNext]_vars

Next ==
    \/ CallCreateWindow
    \/ CallAct
    \/ CallKeyboardInput
    \/ Resumed
    \/ UserEvent
    \/ HandleWindowEvent
    \/ AboutToWait
    \/ LoadConfigStep
    \/ LoadCmdsStep

\* Every call: the public methods of App and the event loop's handlers.
Spec == Init /\ [][Next]_vars

\* The calls the event loop makes while it runs: winit delivers resumed at
\* startup and may deliver it again (its documentation asks applications to
\* cope with redundant Resumed events), then window and user events, and
\* about_to_wait after each batch.
LoopNext ==
    \/ Resumed
    \/ UserEvent
    \/ HandleWindowEvent
    \/ AboutToWait

\* The application as event_loop.run_app(&mut app) runs it.
LoopSpec == Init /\ [][LoopNext]_vars

\* The event loop as winit schedules it: with ControlFlow::Wait, about_to_wait
\* is called after every batch of events, before the loop waits again.
LiveSpec == Init /\ [][LoopNext]_vars /\ WF_vars(AboutToWait)

\* The states the model ranges over.
TypeOK ==
    /\ DOMAIN windows \subseteq WindowIds
    /\ live \subseteq WindowIds
    /\ \A k \in DOMAIN cmd : cmd[k] \in Acts
    /\ started \in BOOLEAN /\ exit \in BOOLEAN /\ panicked \in BOOLEAN

\* ------------------------------------------------------------------ claims

\* The table after the call holds exactly the entries of the table before it.
TableUnchanged == windows = before

\* The entries of `before` other than id are still in the table, unchanged.
OthersKept(id) ==
    /\ (DOMAIN before) \ {id} \subseteq DOMAIN windows
    /\ \A k \in (DOMAIN before) \ {id} : windows[k] = before[k]

\* C1: after App::act(Exit, id), for every id and every table, the result is
\* Ok and the window table is empty.
C1_ExitEmptiesTable ==
    (last.op = "act" /\ last.act = "Exit") =>
        (last.result = "Ok" /\ IsEmpty(windows))

\* C1's case: Exit applied to a table of two windows, naming an id that has no entry.
C1_Witness ==
    /\ last.op = "act" /\ last.act = "Exit"
    /\ Cardinality(DOMAIN before) >= 2
    /\ last.id \notin DOMAIN before
    /\ IsEmpty(windows)

\* C2: App::act(CloseWindow, id) with id in the table removes exactly id's
\* entry: id is absent afterwards, every other entry is present and unchanged,
\* and the result is Ok.
C2_CloseWindowRemovesExactlyId ==
    (last.op = "act" /\ last.act = "CloseWindow" /\ last.id \in DOMAIN before) =>
        /\ last.result = "Ok"
        /\ DOMAIN windows = (DOMAIN before) \ {last.id}
        /\ OthersKept(last.id)

\* C2's case: one of two windows is closed and the other stays.
C2_Witness ==
    /\ last.op = "act" /\ last.act = "CloseWindow"
    /\ last.id \in DOMAIN before
    /\ Cardinality(DOMAIN before) >= 2
    /\ Cardinality(DOMAIN windows) = Cardinality(DOMAIN before) - 1

\* C3: App::act(CloseWindow, id) with id not in the table returns Ok and
\* leaves the table exactly as it was.
C3_CloseAbsentWindowIsNoOp ==
    (last.op = "act" /\ last.act = "CloseWindow" /\ last.id \notin DOMAIN before) =>
        (last.result = "Ok" /\ TableUnchanged)

\* C3's case: CloseWindow names an id with no entry while windows are open.
C3_Witness ==
    /\ last.op = "act" /\ last.act = "CloseWindow"
    /\ last.id \notin DOMAIN before
    /\ ~IsEmpty(before)
    /\ last.result = "Ok"

\* C4: App::act(Be, id) returns Ok and leaves the table unchanged, in every
\* state and for every id, so any number of applications changes nothing.
C4_BeChangesNothing ==
    (last.op = "act" /\ last.act = "Be") => (last.result = "Ok" /\ TableUnchanged)

\* C4's case: Be applied to an open window.
C4_Witness ==
    /\ last.op = "act" /\ last.act = "Be"
    /\ last.id \in DOMAIN before
    /\ last.result = "Ok"

\* C5: a successful create_window, on whatever path it was reached, adds one
\* entry under an identity that was not in the table and keeps every entry
\* that was there, so the table grows by exactly one.
C5_CreateAddsExactlyOne ==
    (last.os = "Created") =>
        /\ last.newid \notin DOMAIN before
        /\ DOMAIN windows = (DOMAIN before) \cup {last.newid}
        /\ OthersKept(last.newid)
        /\ Cardinality(DOMAIN windows) = Cardinality(DOMAIN before) + 1

\* C5's case: create_window succeeds while another window is open.
C5_Witness ==
    /\ last.op = "create_window" /\ last.os = "Created"
    /\ ~IsEmpty(before)
    /\ last.newid \in DOMAIN windows

\* C6: when the OS refuses the window, create_window and act(NewWindow) return
\* the error and the table is unchanged.
C6_RefusalLeavesTable ==
    (last.op \in {"create_window", "act"} /\ last.os = "Refused") =>
        (last.result = "OsError" /\ TableUnchanged)

\* C6's case: act(NewWindow) is refused by the OS while a window is open.
C6_Witness ==
    /\ last.op = "act" /\ last.act = "NewWindow" /\ last.os = "Refused"
    /\ ~IsEmpty(before)

\* C7: exit is requested only by about_to_wait, and by it exactly when the
\* table is empty; with a window open exit is never requested.
C7_ExitIffEmpty ==
    /\ exit => (last.op = "about_to_wait" /\ IsEmpty(windows))
    /\ (last.op = "about_to_wait") => (exit <=> IsEmpty(before))
    /\ (last.op = "about_to_wait") => (last.exits <=> IsEmpty(before))

\* C7's case: about_to_wait finds the table empty after a window was open,
\* and requests exit.
C7_Witness == last.op = "about_to_wait" /\ last.had /\ IsEmpty(before) /\ exit

\* The calls the event loop makes (the ApplicationHandler methods).
HandlerOps == {"resumed", "user_event", "window_event", "about_to_wait"}

\* C8: once the table is empty after having held a window, no event handled
\* by the application makes it non-empty again or dispatches an action.
C8_TerminatingAbsorbing ==
    (last.op \in HandlerOps /\ last.had /\ IsEmpty(before)) =>
        (IsEmpty(windows) /\ last.acted = NoAct)

\* C9: a non-empty table becomes empty only by Exit, by CloseWindow naming the
\* last window, or by CloseRequested on the last window.
C9_EmptiedOnlyByExitOrLastClose ==
    (~IsEmpty(before) /\ IsEmpty(windows)) =>
        \/ last.acted = "Exit"
        \/ last.acted = "CloseWindow" /\ DOMAIN before = {last.id}
        \/ /\ last.op = "window_event" /\ last.wevent.kind = "CloseRequested"
           /\ DOMAIN before = {last.id}

\* C9's case: CloseRequested on the last window empties the table.
C9_Witness ==
    /\ last.op = "window_event" /\ last.wevent.kind = "CloseRequested"
    /\ DOMAIN before = {last.id}
    /\ IsEmpty(windows)

\* C10: a key release, whatever key it names, dispatches nothing:
\* keyboard_input returns Ok and the table is unchanged.
C10_ReleaseDispatchesNothing ==
    /\ (last.op = "keyboard_input" /\ ~last.event.pressed) =>
          (last.result = "Ok" /\ last.acted = NoAct /\ TableUnchanged)
    /\ (last.op = "window_event" /\ last.wevent.kind = "KeyboardInput"
           /\ ~last.event.pressed) =>
          (last.inner \in {"Ok", "NotCalled"} /\ last.acted = NoAct /\ TableUnchanged)

\* C10's case: the release of a key bound to Exit, on an open window.
C10_Witness ==
    /\ last.op = "keyboard_input" /\ ~last.event.pressed
    /\ CmdAct(cmd, [last.event EXCEPT !.pressed = TRUE]) = "Exit"
    /\ last.id \in DOMAIN before
    /\ last.result = "Ok"

\* The key of the event has no entry in the key-binding table.
Unbound(event) ==
    \/ event.logical_key.kind \notin {"Named", "Character"}
    \/ event.logical_key.text \notin DOMAIN cmd

\* C11: a press of a key with no entry in the key-binding table is ignored:
\* keyboard_input returns Ok, dispatches nothing and the table is unchanged.
C11_UnboundPressIgnored ==
    /\ (last.op = "keyboard_input" /\ last.event.pressed /\ Unbound(last.event)) =>
          (last.result = "Ok" /\ last.acted = NoAct /\ TableUnchanged)
    /\ (last.op = "window_event" /\ last.wevent.kind = "KeyboardInput"
           /\ last.event.pressed /\ Unbound(last.event)) =>
          (last.inner \in {"Ok", "NotCalled"} /\ last.acted = NoAct /\ TableUnchanged)

\* C11's case: a press of "x", which the table does not bind, on an open window.
C11_Witness ==
    /\ last.op = "keyboard_input" /\ last.event.pressed
    /\ last.event.logical_key = [kind |-> "Character", text |-> "x"]
    /\ "x" \notin DOMAIN cmd
    /\ last.id \in DOMAIN before
    /\ last.result = "Ok"

\* C20: from no window, create_window(None) gives one entry, titled "Tardy"
\* and transparent; a press of "n" sent to it gives two entries; act(Exit)
\* then gives none; and the next about_to_wait requests exit.
C20_Trace ==
    /\ (phase = "one") =>
          /\ Cardinality(DOMAIN windows) = 1
          /\ \A k \in DOMAIN windows :
                /\ windows[k].window.attr.title = "Tardy"
                /\ windows[k].window.attr.transparent
    /\ (phase = "two") => Cardinality(DOMAIN windows) = 2
    /\ (phase = "zero") => IsEmpty(windows)
    /\ (phase = "done") => (IsEmpty(windows) /\ exit)

\* C20's case: the whole trace has run, and exit is requested.
C20_Witness == phase = "done" /\ last.op = "about_to_wait" /\ exit

\* A press of the named key Escape, and of the character key n.
PressEscape == [logical_key |-> [kind |-> "Named", text |-> "Escape"], pressed |-> TRUE]

PressN == [logical_key |-> [kind |-> "Character", text |-> "n"], pressed |-> TRUE]

PressX == [logical_key |-> [kind |-> "Character", text |-> "x"], pressed |-> TRUE]

\* The configuration source holds no binding: no key of it names an Act.
NoBindings(table) == \A a \in Acts : Snake(a) \notin DOMAIN table

\* C12: a table built from a source that is missing, unparsable, or present
\* with no bindings, maps Escape to Exit and n to NewWindow.
C12_EmptyOrInvalidSourceGivesDefaults ==
    (pc = "ready" /\ (~source.ok \/ NoBindings(source.table))) =>
        (CmdAct(cmd, PressEscape) = "Exit" /\ CmdAct(cmd, PressN) = "NewWindow")

\* The Acts the configuration binds to the value whose text is v.
BoundTo(v) == {a \in Acts : Snake(a) \in DOMAIN config /\ config[Snake(a)].text = v}

\* The texts of the values the configuration gives to Act names.
BoundValues == {config[Snake(a)].text : a \in {b \in Acts : Snake(b) \in DOMAIN config}}

\* load_cmds has run on the configuration that is loaded: it built the table,
\* or it panicked.
CmdsLoaded == pc \in {"ready", "panicked"}

\* C13: from a source that builds, load_cmds builds a table, and the table
\* maps v to a for every Act a configured with v, and holds nothing else.
C13_TableIsInverseOfConfig ==
    (CmdsLoaded /\ source.ok) =>
        /\ pc = "ready"
        /\ \A a \in Acts : Snake(a) \in DOMAIN config =>
              (config[Snake(a)].text \in DOMAIN cmd /\ cmd[config[Snake(a)].text] = a)
        /\ DOMAIN cmd = BoundValues

\* C14: a lookup answers an Act only for a named or character key whose text
\* is exactly the value the configuration gives that Act, answers one whenever
\* there is such an Act, and answers None (never Be by default) otherwise.
C14_LookupIsExactMatch ==
    (pc = "ready") =>
        LET k == probe.event.logical_key
        IN /\ (probe.act # NoAct) =>
                  /\ k.kind \in {"Named", "Character"}
                  /\ probe.act \in BoundTo(k.text)
           /\ (k.kind \in {"Named", "Character"} /\ BoundTo(k.text) # {}) =>
                  probe.act # NoAct
           /\ (k.kind \notin {"Named", "Character"} \/ BoundTo(k.text) = {}) =>
                  probe.act = NoAct

\* C14's case: "N" is looked up in a table that binds "n", and is not found.
C14_Witness ==
    /\ pc = "ready"
    /\ probe.event.logical_key = [kind |-> "Character", text |-> "N"]
    /\ "n" \in DOMAIN cmd
    /\ probe.act = NoAct

\* The frame lies on its monitor: x + width <= monitor width and y + height
\* <= monitor height, on the u32 values (one of 2^31 or more exceeds the span).
Bounded(monitor, out) ==
    /\ out.x >= 1 - 1 /\ out.width >= 1 - 1 /\ out.x + out.width <= monitor.width
    /\ out.y >= 1 - 1 /\ out.height >= 1 - 1 /\ out.y + out.height <= monitor.height

\* The monitor is wider and higher than 2 * MIN_SPAN.
LargeEnough(monitor) == monitor.width > 2 * MIN_SPAN /\ monitor.height > 2 * MIN_SPAN

\* C15: on a monitor wider and higher than 2 * MIN_SPAN every Frame lies on
\* the monitor and is at least MIN_SPAN wide and high.
C15_FrameWithinMonitor ==
    (frame.out.status = "Frame" /\ LargeEnough(frame.monitor)) =>
        /\ Bounded(frame.monitor, frame.out)
        /\ ~BelowU32(frame.out.width, MIN_SPAN)
        /\ ~BelowU32(frame.out.height, MIN_SPAN)

\* C15's case: a Frame on a large monitor, drawn as far right as the draws go.
C15_Witness ==
    /\ frame.out.status = "Frame"
    /\ LargeEnough(frame.monitor)
    /\ frame.monitor.width = 1920
    /\ frame.out.x + frame.out.width = frame.monitor.width - 1
    /\ frame.out.y = MIN_SPAN /\ frame.out.height = MIN_SPAN

\* C16: on a monitor no wider or no higher than 2 * MIN_SPAN, Frame::from
\* never returns a Frame, with or without overflow checks.
C16_SmallMonitorIsFatal ==
    (frame.out.status # "none" /\ ~LargeEnough(frame.monitor)) => frame.out.status = "panic"

\* The named query was the last call, so `windows` is the table it saw.
Asked(names) == last.op = "query" /\ query.name \in names

\* Every monitor of the list is wider and higher than 2 * MIN_SPAN.
AllLargeEnough(monitors) == \A i \in DOMAIN monitors : LargeEnough(monitors[i].size)

\* frames(count) answered count Frames, each for a monitor of the list.
CountFramesOfList ==
    /\ query.answer.status = "Some"
    /\ Len(query.answer.items) = query.count
    /\ \A i \in DOMAIN query.answer.items :
          \E j \in DOMAIN query.monitors : query.answer.items[i].monitor = query.monitors[j]

\* C17 as stated: with a window open and a non-empty monitor list,
\* frames(count) returns exactly count Frames, each for a monitor of the list.
C17_FramesReturnsCount ==
    (Asked({"frames"}) /\ ~IsEmpty(windows) /\ query.monitors # <<>>) => CountFramesOfList

\* C17 as amended: the same, when every monitor of the list is wider and
\* higher than 2 * MIN_SPAN.
C17_FramesReturnsCountOnLargeMonitors ==
    (Asked({"frames"}) /\ ~IsEmpty(windows) /\ query.monitors # <<>>
        /\ AllLargeEnough(query.monitors)) => CountFramesOfList

\* C17's case: two frames over a list of one monitor, chosen twice.
C17_Witness ==
    /\ Asked({"frames"}) /\ ~IsEmpty(windows)
    /\ Len(query.monitors) = 1 /\ AllLargeEnough(query.monitors)
    /\ query.count = 2
    /\ query.answer.status = "Some" /\ Len(query.answer.items) = 2
    /\ query.answer.items[1].monitor = query.answer.items[2].monitor

\* C18: with a window open and an empty monitor list, random_monitor, frame,
\* and random_monitors and frames with a count of one or more, return None.
C18_NoMonitorsIsNone ==
    (/\ Asked({"random_monitor", "random_monitors", "frame", "frames"})
     /\ query.name \in {"random_monitors", "frames"} => query.count >= 1
     /\ ~IsEmpty(windows)
     /\ query.monitors = <<>>) => query.answer.status = "None"

\* C19: with an empty table every query returns None; with a window open,
\* lenses returns Some with one element per table entry.
C19_NoWindowIsNone ==
    /\ (Asked(QueryNames) /\ IsEmpty(windows)) => query.answer = NoneAnswer
    /\ (Asked({"lenses"}) /\ ~IsEmpty(windows)) =>
          /\ query.answer.status = "Some"
          /\ Len(query.answer.items) = Cardinality(DOMAIN windows)
          /\ \A id \in DOMAIN windows :
                \E i \in DOMAIN query.answer.items : query.answer.items[i] = windows[id]

\* C19's case: the table held a window and is empty again; frames(1) is None.
C19_Witness ==
    /\ Asked({"frames"}) /\ query.count = 1
    /\ IsEmpty(windows) /\ hadWindow
    /\ query.answer = NoneAnswer

\* C21: applying NewWindow with a frame (a relayed NewWindow request that
\* carries one, handled by user_event) creates a window with the frame's
\* position and size, and applying it without one (a key bound to NewWindow)
\* creates a window with the default attributes.
C21_NewWindowUsesSuppliedFrame ==
    /\ (last.op = "user_event" /\ last.request.act = "NewWindow" /\ last.request.frame) =>
          \E id \in (DOMAIN windows) \ (DOMAIN before) :
             /\ windows[id].window.attr.position.some
             /\ windows[id].window.attr.inner_size.some
    /\ (last.op = "window_event" /\ last.acted = "NewWindow" /\ last.os = "Created") =>
          windows[last.newid].window.attr = DefaultAttributes

\* C22: a relayed NewWindow request carrying a frame, handled by user_event,
\* opens a window; a relayed CloseWindow request, handled while more than one
\* window is open, closes one.
C22_RelayedRequestIsApplied ==
    /\ (last.op = "user_event" /\ last.request.act = "NewWindow" /\ last.request.frame) =>
          Cardinality(DOMAIN windows) = Cardinality(DOMAIN before) + 1
    /\ (last.op = "user_event" /\ last.request.act = "CloseWindow"
           /\ Cardinality(DOMAIN before) > 1) =>
          Cardinality(DOMAIN windows) = Cardinality(DOMAIN before) - 1

\* The requests user_event has handled, in the order it handled them.
Handled == bridge.handled

\* C23: user_event handles each producer's requests at most once each and in
\* the order the producer sent them, and only requests that were sent,
\* whatever OS events and other producers' sends come in between.
C23_PerProducerOrder ==
    /\ \A i, j \in DOMAIN Handled :
          (i < j /\ Handled[i].producer = Handled[j].producer) =>
              Handled[i].seq < Handled[j].seq
    /\ \A i \in DOMAIN Handled :
          /\ Handled[i].seq >= 1
          /\ Handled[i].seq <= bridge.sent[Handled[i].producer]
    /\ \A i \in DOMAIN Handled, k \in DOMAIN bridge.channel :
          Handled[i].producer = bridge.channel[k].producer =>
              Handled[i].seq < bridge.channel[k].seq

\* C23's case: both requests of one producer are handled in send order, a
\* request of the other producer sent after the first of them is handled
\* between them, and an OS event came after.
C23_Witness ==
    /\ Len(Handled) = 3
    /\ Handled[1].producer = Handled[3].producer
    /\ Handled[1].producer # Handled[2].producer
    /\ Handled[1].seq = 1 /\ Handled[3].seq = 2
    /\ last.op = "window_event"

\* C24: once the loop has terminated, a send fails with Blame::EventLoopClosed,
\* its request is never in the channel nor handled, and the producer sends no
\* more; before that no send fails, and a request sent before that is never
\* handled after it.
C24_SendAfterExitFails ==
    /\ \A m \in bridge.refused :
          /\ m.closed /\ exit /\ IsEmpty(windows)
          /\ bridge.error[m.producer] = "EventLoopClosed"
          /\ m.seq = bridge.sent[m.producer]
          /\ \A i \in DOMAIN Handled : Handled[i] # m
          /\ \A k \in DOMAIN bridge.channel : bridge.channel[k] # m
    /\ \A p \in Producers :
          /\ bridge.error[p] \in {"None", "EventLoopClosed"}
          /\ bridge.error[p] # "None" => \E m \in bridge.refused : m.producer = p
          /\ Cardinality({m \in bridge.refused : m.producer = p}) <= 1
    /\ \A i \in DOMAIN Handled : ~Handled[i].closed
    /\ \A k \in DOMAIN bridge.channel : ~bridge.channel[k].closed
    /\ exit => last.op = "about_to_wait"

\* C24's case: the loop has terminated with a request still in the channel,
\* and a producer that had a send handled before was refused its next one.
C24_Witness ==
    /\ exit /\ IsEmpty(windows)
    /\ bridge.channel # <<>>
    /\ \E m \in bridge.refused :
          /\ m.seq = 2
          /\ \E i \in DOMAIN Handled : Handled[i].producer = m.producer
          /\ bridge.error[m.producer] = "EventLoopClosed"

\* C25: when the OS refuses the window resumed asks for, the process panics:
\* the table is left as it was, exit is not requested, and no handler runs
\* after it.
C25_FirstWindowFailureIsFatal ==
    /\ (last.op = "resumed" /\ last.os = "Refused") =>
          (panicked /\ ~exit /\ TableUnchanged)
    /\ (panicked /\ pc # "panicked") => (last.op = "resumed" /\ last.os = "Refused")

\* C25's case: the first resumed is refused, with no window ever opened.
C25_Witness ==
    /\ last.op = "resumed" /\ last.os = "Refused"
    /\ ~hadWindow /\ IsEmpty(windows)
    /\ panicked

\* C26: if from some point on the loop is running with an empty table (every
\* window has been closed and none is created any more), exit is eventually
\* requested.
C26_EmptyTableLeadsToExit ==
    <>[](started /\ ~panicked /\ IsEmpty(windows)) => <>exit

\* C26's case: windows were open, all are closed and destroyed, and exit has
\* been requested.
C26_Witness ==
    /\ exit /\ started
    /\ hadWindow /\ IsEmpty(windows) /\ live = {}

\* The Acts the configuration file binds to value v.
FileBoundTo(v) ==
    {a \in Acts : Snake(a) \in DOMAIN source.table /\ source.table[Snake(a)].text = v}

\* C27: after load_config the configuration is the file's table or exactly
\* the two defaults, and after load_cmds every entry of the key-binding table
\* comes from the file, or the table is exactly Escape -> Exit, n -> NewWindow.
C27_FallbackAllOrNothing ==
    /\ (pc \in {"configured", "reconfigured", "ready"}) =>
          IF source.ok THEN config = source.table
          ELSE /\ DOMAIN config = {"exit", "new_window"}
               /\ config["exit"] = Str("Escape") /\ config["new_window"] = Str("n")
    /\ (pc = "ready") =>
          IF source.ok THEN \A v \in DOMAIN cmd : cmd[v] \in FileBoundTo(v)
          ELSE /\ DOMAIN cmd = {"Escape", "n"}
               /\ cmd["Escape"] = "Exit" /\ cmd["n"] = "NewWindow"

\* C27's case: the file could not be read, the table has the two defaults and
\* n was looked up in it.
C27_Witness ==
    /\ pc = "ready" /\ ~source.ok
    /\ Cardinality(DOMAIN cmd) = 2
    /\ probe.event = PressN /\ probe.act = "NewWindow"

\* The place of an Act in the enumeration CloseWindow, Exit, NewWindow, Be.
EnumerationPlace(a) ==
    CASE a = "CloseWindow" -> 1 [] a = "Exit" -> 2 [] a = "NewWindow" -> 3 [] a = "Be" -> 4

\* C28: a value configured for several action names has one entry, mapped to
\* the last of those actions in enumeration order, and the table has as many
\* entries as there are distinct configured values.
C28_LastInsertWins ==
    (pc = "ready" /\ source.ok) =>
        /\ \A v \in BoundValues :
              /\ v \in DOMAIN cmd
              /\ cmd[v] \in BoundTo(v)
              /\ \A a \in BoundTo(v) : EnumerationPlace(a) <= EnumerationPlace(cmd[v])
        /\ Cardinality(DOMAIN cmd) = Cardinality(BoundValues)

\* C28's case: close_window and new_window are both configured with "x", exit
\* with another key; x maps to NewWindow and the table has two entries.
C28_Witness ==
    /\ pc = "ready" /\ source.ok
    /\ BoundTo("x") = {"CloseWindow", "NewWindow"}
    /\ BoundTo("Escape") = {"Exit"}
    /\ cmd["x"] = "NewWindow"
    /\ Cardinality(DOMAIN cmd) = 2

\* C29: when window_event handles a key press bound to NewWindow and the OS
\* refuses the window, keyboard_input returns the error, window_event absorbs
\* it, the table is unchanged, and the loop keeps running.
C29_RefusedKeyPressIsAbsorbed ==
    (last.op = "window_event" /\ last.os = "Refused") =>
        /\ last.wevent.kind = "KeyboardInput" /\ last.event.pressed
        /\ last.acted = "NewWindow"
        /\ last.inner = "OsError"
        /\ TableUnchanged
        /\ Running

\* C29's case: a press of n on one of two open windows is refused by the OS.
C29_Witness ==
    /\ last.op = "window_event" /\ last.os = "Refused"
    /\ last.event = PressN
    /\ last.id \in DOMAIN windows
    /\ Cardinality(DOMAIN windows) = 2
    /\ ~panicked

\* C30: CloseRequested for a window in the table removes that window's entry,
\* keeps every other entry as it was, and requests no exit.
C30_CloseRequestedRemovesOne ==
    (last.op = "window_event" /\ last.wevent.kind = "CloseRequested"
        /\ last.id \in DOMAIN before) =>
        /\ last.id \notin DOMAIN windows
        /\ DOMAIN windows = (DOMAIN before) \ {last.id}
        /\ OthersKept(last.id)
        /\ ~exit /\ ~last.exits

\* C30's case: CloseRequested for one of two windows; the other one stays
\* and the OS window that was closed is destroyed.
C30_Witness ==
    /\ last.op = "window_event" /\ last.wevent.kind = "CloseRequested"
    /\ Cardinality(DOMAIN before) = 2
    /\ Cardinality(DOMAIN windows) = 1
    /\ last.id \notin live
    /\ ~exit

\* C31: the keys of the window table are exactly the identities of the live
\* OS windows: a window is live from its successful create_window until its
\* entry is removed, and no live window is without an entry.
C31_TableKeysAreLiveWindows == DOMAIN windows = live

\* C31's case: of two windows created, one was closed by CloseRequested; the
\* one that stays is the only live window.
C31_Witness ==
    /\ last.op = "window_event" /\ last.wevent.kind = "CloseRequested"
    /\ Cardinality(DOMAIN before) = 2
    /\ last.id \in DOMAIN before
    /\ live = (DOMAIN before) \ {last.id}
    /\ live # {}

\* C32: on a monitor wider and higher than 2 * MIN_SPAN, every Frame has
\* MIN_SPAN <= width < monitor width - MIN_SPAN, MIN_SPAN <= height < monitor
\* height - MIN_SPAN, MIN_SPAN <= x < monitor width - width and MIN_SPAN <= y
\* < monitor height - height: the position is drawn for the size drawn before.
C32_DrawsWithinHalfOpenRanges ==
    (frame.out.status = "Frame" /\ LargeEnough(frame.monitor)) =>
        /\ MIN_SPAN <= frame.out.width
        /\ frame.out.width < frame.monitor.width - MIN_SPAN
        /\ MIN_SPAN <= frame.out.height
        /\ frame.out.height < frame.monitor.height - MIN_SPAN
        /\ MIN_SPAN <= frame.out.x
        /\ frame.out.x < frame.monitor.width - frame.out.width
        /\ MIN_SPAN <= frame.out.y
        /\ frame.out.y < frame.monitor.height - frame.out.height

\* C32's case: the widest window of a large monitor, which leaves one x, and
\* the lowest window, placed as far down as the draws go.
C32_Witness ==
    /\ frame.out.status = "Frame"
    /\ LargeEnough(frame.monitor)
    /\ frame.monitor.width > 2 * MIN_SPAN + EdgeDraws
    /\ frame.out.width = frame.monitor.width - MIN_SPAN - 1
    /\ frame.out.x = MIN_SPAN
    /\ frame.out.height = MIN_SPAN
    /\ frame.out.y = frame.monitor.height - MIN_SPAN - 1

\* C33: on a monitor wider and higher than 2 * MIN_SPAN, Frame::from always
\* returns a Frame, with or without overflow checks and whatever size it drew.
C33_LargeMonitorAlwaysFramed ==
    (frame.out.status # "none" /\ LargeEnough(frame.monitor)) => frame.out.status = "Frame"

\* C33's case: the smallest monitor that meets the precondition, in a build
\* with overflow checks; each of the four ranges holds one value.
C33_Witness ==
    /\ frame.out.status = "Frame"
    /\ frame.checks
    /\ frame.monitor = [width |-> 2 * MIN_SPAN + 1, height |-> 2 * MIN_SPAN + 1]
    /\ frame.out.width = MIN_SPAN /\ frame.out.x = MIN_SPAN
    /\ frame.out.height = MIN_SPAN /\ frame.out.y = MIN_SPAN

\* C34: a window_event for an identity that is not in the table dispatches no
\* action, asks the OS for nothing, requests no redraw and leaves the table
\* and the exit request as they were, whatever the event is.
C34_UnknownWindowIgnored ==
    (last.op = "window_event" /\ last.id \notin DOMAIN before) =>
        /\ TableUnchanged
        /\ last.acted = NoAct
        /\ last.inner = "NotCalled"
        /\ last.os = "NotAsked"
        /\ last.newid = NoId
        /\ ~last.redraw
        /\ ~exit

\* C34's case: a press of Escape, bound to Exit, for a window that was closed
\* while another one is still open.
C34_Witness ==
    /\ last.op = "window_event"
    /\ last.id \in WindowIds /\ last.id \notin DOMAIN before
    /\ last.wevent = [kind |-> "KeyboardInput", event |-> PressEscape, is_synthetic |-> FALSE]
    /\ CmdAct(cmd, PressEscape) = "Exit"
    /\ ~IsEmpty(windows)

\* C35: no Lens in the table has a redraw pending, and no RedrawRequested
\* event queues a further redraw.
C35_RefreshNeverSet ==
    /\ \A id \in DOMAIN windows : ~windows[id].refresh
    /\ ~last.redraw

\* C35's case: RedrawRequested for an open window.
C35_Witness ==
    /\ last.op = "window_event" /\ last.wevent.kind = "RedrawRequested"
    /\ last.id \in DOMAIN windows
    /\ ~windows[last.id].refresh
    /\ ~last.redraw

====
